---- MODULE Spec2Model ----
(***************************************************************************)
(* The max_age channel filter (src/core/lib/channel/max_age_filter.c):     *)
(* one channel_data per channel stack, two chained timers, four closures   *)
(* and the channel element's constructor and destructor.                   *)
(*                                                                         *)
(* Every closure is modelled as the sequence of its atomic steps (lock,    *)
(* critical section, unlock, tail) so that closures and the destructor     *)
(* interleave as they do on the executor threads.                          *)
(***************************************************************************)
EXTENDS Integers, Sequences, FiniteSets, TLC

\* ------------------------------------------------------------------ bounds
\* most call elements alive on the channel stack at a time
MaxCalls == 2
\* longest channel-argument list passed to init_channel_elem
MaxArgs == 2
\* largest finite number of seconds used as an argument value
MaxSec == 2
\* the clock runs freely up to MaxNow; beyond it only towards a due timer
MaxNow == 2

\* --------------------------------------------------------- program constants
INT_MAX == 2147483647
DEFAULT_MAX_CONNECTION_AGE_S == INT_MAX
DEFAULT_MAX_CONNECTION_AGE_GRACE_S == INT_MAX

GPRC_ARG_MAX_CONNECION_AGE_S == "GPRC_ARG_MAX_CONNECION_AGE_S"
GPRC_ARG_MAX_CONNECION_AGE_GRACE_S == "GPRC_ARG_MAX_CONNECION_AGE_GRACE_S"
\* a key of another filter, which the argument loop skips
OTHER_ARG == "grpc.other_arg"

GRPC_ERROR_NONE == "GRPC_ERROR_NONE"
GRPC_ERROR_CANCELLED == "GRPC_ERROR_CANCELLED"
\* any error that is neither of the two above (e.g. timer list shutdown)
GRPC_ERROR_OTHER == "GRPC_ERROR_OTHER"

\* ------------------------------------------------------------ gpr_timespec
\* A GPR_TIMESPAN / monotonic time in whole seconds; inf marks gpr_inf_future.
gpr_inf_future == [inf |-> TRUE, tv_sec |-> 0]
gpr_time_from_seconds(s) == [inf |-> FALSE, tv_sec |-> s]

gpr_time_cmp(a, b) ==
  IF a.inf /\ b.inf THEN 0
  ELSE IF a.inf THEN 1
  ELSE IF b.inf THEN 0 - 1
  ELSE IF a.tv_sec < b.tv_sec THEN 0 - 1
  ELSE IF a.tv_sec > b.tv_sec THEN 1
  ELSE 0

gpr_time_add(a, b) ==
  IF a.inf \/ b.inf THEN gpr_inf_future
  ELSE gpr_time_from_seconds(a.tv_sec + b.tv_sec)

\* ------------------------------------------------------------------- state
Closures == {"start_max_age_timer_after_init", "close_max_age_channel",
             "start_max_age_grace_timer_after_goaway_op",
             "force_close_max_age_channel"}
Handlers == Closures \cup {"init_channel_elem", "destroy_channel_elem"}

\* values an uninitialized gpr_timespec field of channel_data may hold
Garbage == {gpr_inf_future} \cup {gpr_time_from_seconds(s) : s \in 0..1}

ArgValues == (1..MaxSec) \cup {INT_MAX}
ArgKeys == {GPRC_ARG_MAX_CONNECION_AGE_S, GPRC_ARG_MAX_CONNECION_AGE_GRACE_S}
Arg == [key : ArgKeys, value : ArgValues] \cup {[key |-> OTHER_ARG, value |-> 1]}
ArgLists == UNION {[1..n -> Arg] : n \in 0..MaxArgs}

UnarmedTimer == [state |-> "unarmed", deadline |-> gpr_inf_future,
                 armed_at |-> 0, error |-> GRPC_ERROR_NONE]

VARIABLES
  args,                        \* args->channel_args of init_channel_elem
  max_age_timer_mu,            \* "none" or the handler that holds the mutex
  max_age_timer_pending,
  max_age_grace_timer_pending,
  max_age_timer,               \* [state, deadline, armed_at, error]
  max_age_grace_timer,
  max_connection_age,
  max_connection_age_grace,
  pc,                          \* position of every handler
  refs,                        \* reference count of chand->channel_stack
  owner_ref,                   \* the channel still holds its own reference
  ref_taken,                   \* GRPC_CHANNEL_STACK_REF calls of this filter
  ref_released,                \* GRPC_CHANNEL_STACK_UNREF calls of this filter
  stack_initialized,           \* grpc_channel_stack_init has returned
  dispatched,                  \* transport ops sent to element 0, in order
  cancel_calls,                \* timers grpc_timer_cancel was called on
  destroyed,                   \* completed runs of destroy_channel_elem
  freed,                       \* the channel stack memory was released
  uaf,                         \* a closure touched channel_data after free
  crashed,                     \* such an access faulted
  now,                         \* gpr_now(GPR_CLOCK_MONOTONIC), seconds
  call_elems,                  \* call elements constructed and not destroyed
  init_call_result             \* what the last init_call_elem returned

vars == <<args, max_age_timer_mu, max_age_timer_pending,
          max_age_grace_timer_pending, max_age_timer, max_age_grace_timer,
          max_connection_age, max_connection_age_grace, pc, refs, owner_ref,
          ref_taken, ref_released, stack_initialized, dispatched,
          cancel_calls, destroyed, freed, uaf, crashed, now, call_elems,
          init_call_result>>

\* The state handed to init_channel_elem: channel_data is raw memory, so its
\* flags and durations hold arbitrary values until the constructor writes them.
Init ==
  /\ args \in ArgLists
  /\ max_age_timer_mu = "none"
  /\ max_age_timer_pending \in BOOLEAN
  /\ max_age_grace_timer_pending \in BOOLEAN
  /\ max_age_timer = UnarmedTimer
  /\ max_age_grace_timer = UnarmedTimer
  /\ max_connection_age \in Garbage
  /\ max_connection_age_grace \in Garbage
  /\ pc = [h \in Handlers |-> IF h = "init_channel_elem" THEN "sched" ELSE "idle"]
  /\ refs = 1
  /\ owner_ref = TRUE
  /\ ref_taken = 0
  /\ ref_released = 0
  /\ stack_initialized = FALSE
  /\ dispatched = <<>>
  /\ cancel_calls = {}
  /\ destroyed = 0
  /\ freed = FALSE
  /\ uaf = FALSE
  /\ crashed = FALSE
  /\ now = 0
  /\ call_elems = 0
  /\ init_call_result = "none"

\* ------------------------------------------------- external collaborators
\* channel_args.c: the integer of an argument, or the default when the value
\* lies outside [min_value, max_value].
grpc_channel_arg_get_integer(arg, options) ==
  IF arg.value < options.min_value \/ arg.value > options.max_value
  THEN options.default_value
  ELSE arg.value

\* timer subsystem: a deadline that has already passed runs the closure at
\* once with GRPC_ERROR_NONE, otherwise the timer waits in the timer list.
grpc_timer_init(deadline, t_now) ==
  [state |-> IF gpr_time_cmp(deadline, t_now) <= 0 THEN "fired" ELSE "armed",
   deadline |-> deadline, armed_at |-> t_now.tv_sec, error |-> GRPC_ERROR_NONE]

\* timer subsystem: cancelling takes a timer that is still in the list out of
\* it and runs its closure with GRPC_ERROR_CANCELLED; a timer the scheduler
\* has already taken out is left alone (cancellation is advisory).
grpc_timer_cancel(timer) ==
  IF timer.state = "armed"
  THEN [timer EXCEPT !.state = "fired", !.error = GRPC_ERROR_CANCELLED]
  ELSE timer

\* the closure of a timer is scheduled at the moment the timer leaves the list
SchedOnFire(p, h, old, new) ==
  IF old.state # "fired" /\ new.state = "fired" THEN [p EXCEPT ![h] = "sched"] ELSE p

\* channel stack: dropping the last reference schedules the stack's
\* destruction, which runs destroy_channel_elem and then frees the memory.
ChannelStackUnref(p, count) ==
  IF count = 0 /\ p["destroy_channel_elem"] \in {"idle", "done"}
  THEN [p EXCEPT !["destroy_channel_elem"] = "sched"]
  ELSE p

\* a step of a closure that runs on released memory is a use after free
Touch == uaf' = (uaf \/ freed)

\* ------------------------------------------------------ init_channel_elem
\* value == INT_MAX ? gpr_inf_future(GPR_TIMESPAN)
\*                  : gpr_time_from_seconds(value, GPR_TIMESPAN)
ValueToTimespan(value) ==
  IF value = INT_MAX THEN gpr_inf_future ELSE gpr_time_from_seconds(value)

\* the two default assignments: both write max_connection_age, the second
\* one with the grace default; max_connection_age_grace is not written.
AssignDefaults(d) ==
  LET d1 == [d EXCEPT !.age = ValueToTimespan(DEFAULT_MAX_CONNECTION_AGE_S)]
  IN [d1 EXCEPT !.age = ValueToTimespan(DEFAULT_MAX_CONNECTION_AGE_GRACE_S)]

\* one iteration of the loop over args->channel_args->args
ApplyArg(arg, d) ==
  IF arg.key = GPRC_ARG_MAX_CONNECION_AGE_S
  THEN [d EXCEPT !.age = ValueToTimespan(grpc_channel_arg_get_integer(arg,
          [default_value |-> DEFAULT_MAX_CONNECTION_AGE_S,
           min_value |-> 1, max_value |-> INT_MAX]))]
  ELSE IF arg.key = GPRC_ARG_MAX_CONNECION_AGE_GRACE_S
  THEN [d EXCEPT !.grace = ValueToTimespan(grpc_channel_arg_get_integer(arg,
          [default_value |-> DEFAULT_MAX_CONNECTION_AGE_GRACE_S,
           min_value |-> 1, max_value |-> INT_MAX]))]
  ELSE d

RECURSIVE ApplyArgs(_, _, _)
ApplyArgs(as, i, d) ==
  IF i > Len(as) THEN d ELSE ApplyArgs(as, i + 1, ApplyArg(as[i], d))

\* the comparison with == in place of !=
MaxAgeIsFinite_Inverted(age) == gpr_time_cmp(age, gpr_inf_future) = 0

\* gpr_time_cmp(chand->max_connection_age, gpr_inf_future(GPR_TIMESPAN)) != 0
MaxAgeIsFinite(age) == gpr_time_cmp(age, gpr_inf_future) # 0

\* the age timer armed by the constructor itself instead of by the closure
init_channel_elem_ArmsSynchronously ==
  /\ ~crashed
  /\ pc["init_channel_elem"] = "sched"
  /\ LET d == ApplyArgs(args, 1,
                AssignDefaults([age |-> max_connection_age,
                                grace |-> max_connection_age_grace]))
         finite == gpr_time_cmp(d.age, gpr_inf_future) # 0
     IN /\ max_age_timer_mu' = "none"
        /\ max_age_timer_pending' = finite
        /\ max_age_grace_timer_pending' = FALSE
        /\ max_connection_age' = d.age
        /\ max_connection_age_grace' = d.grace
        /\ max_age_timer' =
             IF finite
             THEN grpc_timer_init(gpr_time_add(gpr_time_from_seconds(now), d.age),
                                  gpr_time_from_seconds(now))
             ELSE max_age_timer
        /\ pc' = [pc EXCEPT !["init_channel_elem"] = "done"]
  /\ UNCHANGED <<args, call_elems, init_call_result, max_age_grace_timer,
                 refs, ref_taken, owner_ref, ref_released, stack_initialized,
                 dispatched, cancel_calls, destroyed, freed, uaf, crashed, now>>

init_channel_elem ==
  /\ ~crashed
  /\ pc["init_channel_elem"] = "sched"
  /\ LET d == ApplyArgs(args, 1,
                AssignDefaults([age |-> max_connection_age,
                                grace |-> max_connection_age_grace]))
         finite == MaxAgeIsFinite(d.age)
     IN /\ max_age_timer_mu' = "none"
        /\ max_age_timer_pending' = FALSE
        /\ max_age_grace_timer_pending' = FALSE
        /\ max_connection_age' = d.age
        /\ max_connection_age_grace' = d.grace
        /\ refs' = IF finite THEN refs + 1 ELSE refs
        /\ ref_taken' = IF finite THEN ref_taken + 1 ELSE ref_taken
        /\ pc' = [pc EXCEPT !["init_channel_elem"] = "done",
                            !["start_max_age_timer_after_init"] =
                               IF finite THEN "sched" ELSE @]
  /\ UNCHANGED <<args, call_elems, init_call_result, max_age_timer, max_age_grace_timer, owner_ref,
                 ref_released, stack_initialized, dispatched, cancel_calls,
                 destroyed, freed, uaf, crashed, now>>

\* The channel stack is fully initialized once every element's constructor
\* has returned; closures scheduled on the exec_ctx run only after that.
channel_stack_init_done ==
  /\ ~crashed
  /\ pc["init_channel_elem"] = "done"
  /\ ~stack_initialized
  /\ stack_initialized' = TRUE
  /\ UNCHANGED <<args, call_elems, init_call_result, max_age_timer_mu, max_age_timer_pending,
                 max_age_grace_timer_pending, max_age_timer,
                 max_age_grace_timer, max_connection_age,
                 max_connection_age_grace, pc, refs, owner_ref, ref_taken,
                 ref_released, dispatched, cancel_calls, destroyed, freed,
                 uaf, crashed, now>>

\* ------------------------------------------- start_max_age_timer_after_init
start_max_age_timer_after_init_lock ==
  /\ ~crashed
  /\ stack_initialized
  /\ pc["start_max_age_timer_after_init"] = "sched"
  /\ max_age_timer_mu = "none"
  /\ max_age_timer_mu' = "start_max_age_timer_after_init"
  /\ pc' = [pc EXCEPT !["start_max_age_timer_after_init"] = "locked"]
  /\ Touch
  /\ UNCHANGED <<args, call_elems, init_call_result, max_age_timer_pending, max_age_grace_timer_pending,
                 max_age_timer, max_age_grace_timer, max_connection_age,
                 max_connection_age_grace, refs, owner_ref, ref_taken,
                 ref_released, stack_initialized, dispatched, cancel_calls,
                 destroyed, freed, crashed, now>>

\* the age deadline computed from the grace duration
MaxAgeDeadline_UsesGrace(t_now) == gpr_time_add(t_now, max_connection_age_grace)

\* gpr_time_add(gpr_now(GPR_CLOCK_MONOTONIC), chand->max_connection_age)
MaxAgeDeadline(t_now) == gpr_time_add(t_now, max_connection_age)

start_max_age_timer_after_init_critical ==
  /\ ~crashed
  /\ pc["start_max_age_timer_after_init"] = "locked"
  /\ max_age_timer_pending' = TRUE
  /\ max_age_timer' = grpc_timer_init(MaxAgeDeadline(gpr_time_from_seconds(now)),
                                      gpr_time_from_seconds(now))
  /\ pc' = SchedOnFire([pc EXCEPT !["start_max_age_timer_after_init"] = "critical_done"],
                       "close_max_age_channel", max_age_timer, max_age_timer')
  /\ Touch
  /\ UNCHANGED <<args, call_elems, init_call_result, max_age_timer_mu, max_age_grace_timer_pending,
                 max_age_grace_timer, max_connection_age,
                 max_connection_age_grace, refs, owner_ref, ref_taken,
                 ref_released, stack_initialized, dispatched, cancel_calls,
                 destroyed, freed, crashed, now>>

start_max_age_timer_after_init_unlock ==
  /\ ~crashed
  /\ pc["start_max_age_timer_after_init"] = "critical_done"
  /\ max_age_timer_mu' = "none"
  /\ pc' = [pc EXCEPT !["start_max_age_timer_after_init"] = "unlocked"]
  /\ Touch
  /\ UNCHANGED <<args, call_elems, init_call_result, max_age_timer_pending, max_age_grace_timer_pending,
                 max_age_timer, max_age_grace_timer, max_connection_age,
                 max_connection_age_grace, refs, owner_ref, ref_taken,
                 ref_released, stack_initialized, dispatched, cancel_calls,
                 destroyed, freed, crashed, now>>

start_max_age_timer_after_init_unref ==
  /\ ~crashed
  /\ pc["start_max_age_timer_after_init"] = "unlocked"
  /\ refs' = refs - 1
  /\ ref_released' = ref_released + 1
  /\ pc' = ChannelStackUnref([pc EXCEPT !["start_max_age_timer_after_init"] = "done"],
                             refs')
  /\ Touch
  /\ UNCHANGED <<args, call_elems, init_call_result, max_age_timer_mu, max_age_timer_pending,
                 max_age_grace_timer_pending, max_age_timer,
                 max_age_grace_timer, max_connection_age,
                 max_connection_age_grace, owner_ref, ref_taken,
                 stack_initialized, dispatched, cancel_calls, destroyed,
                 freed, crashed, now>>

\* -------------------------------- start_max_age_grace_timer_after_goaway_op
start_max_age_grace_timer_after_goaway_op_lock ==
  /\ ~crashed
  /\ pc["start_max_age_grace_timer_after_goaway_op"] = "sched"
  /\ max_age_timer_mu = "none"
  /\ max_age_timer_mu' = "start_max_age_grace_timer_after_goaway_op"
  /\ pc' = [pc EXCEPT !["start_max_age_grace_timer_after_goaway_op"] = "locked"]
  /\ Touch
  /\ UNCHANGED <<args, call_elems, init_call_result, max_age_timer_pending, max_age_grace_timer_pending,
                 max_age_timer, max_age_grace_timer, max_connection_age,
                 max_connection_age_grace, refs, owner_ref, ref_taken,
                 ref_released, stack_initialized, dispatched, cancel_calls,
                 destroyed, freed, crashed, now>>

\* the grace deadline computed from the age duration
MaxAgeGraceDeadline_UsesMaxAge(t_now) == gpr_time_add(t_now, max_connection_age)

\* gpr_time_add(gpr_now(GPR_CLOCK_MONOTONIC), chand->max_connection_age_grace)
MaxAgeGraceDeadline(t_now) == gpr_time_add(t_now, max_connection_age_grace)

start_max_age_grace_timer_after_goaway_op_critical ==
  /\ ~crashed
  /\ pc["start_max_age_grace_timer_after_goaway_op"] = "locked"
  /\ max_age_grace_timer_pending' = TRUE
  /\ max_age_grace_timer' =
       grpc_timer_init(MaxAgeGraceDeadline(gpr_time_from_seconds(now)),
                       gpr_time_from_seconds(now))
  /\ pc' = SchedOnFire(
             [pc EXCEPT !["start_max_age_grace_timer_after_goaway_op"] = "critical_done"],
             "force_close_max_age_channel", max_age_grace_timer, max_age_grace_timer')
  /\ Touch
  /\ UNCHANGED <<args, call_elems, init_call_result, max_age_timer_mu, max_age_timer_pending, max_age_timer,
                 max_connection_age, max_connection_age_grace, refs,
                 owner_ref, ref_taken, ref_released, stack_initialized,
                 dispatched, cancel_calls, destroyed, freed, crashed, now>>

start_max_age_grace_timer_after_goaway_op_unlock ==
  /\ ~crashed
  /\ pc["start_max_age_grace_timer_after_goaway_op"] = "critical_done"
  /\ max_age_timer_mu' = "none"
  /\ pc' = [pc EXCEPT !["start_max_age_grace_timer_after_goaway_op"] = "unlocked"]
  /\ Touch
  /\ UNCHANGED <<args, call_elems, init_call_result, max_age_timer_pending, max_age_grace_timer_pending,
                 max_age_timer, max_age_grace_timer, max_connection_age,
                 max_connection_age_grace, refs, owner_ref, ref_taken,
                 ref_released, stack_initialized, dispatched, cancel_calls,
                 destroyed, freed, crashed, now>>

start_max_age_grace_timer_after_goaway_op_unref ==
  /\ ~crashed
  /\ pc["start_max_age_grace_timer_after_goaway_op"] = "unlocked"
  /\ refs' = refs - 1
  /\ ref_released' = ref_released + 1
  /\ pc' = ChannelStackUnref(
             [pc EXCEPT !["start_max_age_grace_timer_after_goaway_op"] = "done"], refs')
  /\ Touch
  /\ UNCHANGED <<args, call_elems, init_call_result, max_age_timer_mu, max_age_timer_pending,
                 max_age_grace_timer_pending, max_age_timer,
                 max_age_grace_timer, max_connection_age,
                 max_connection_age_grace, owner_ref, ref_taken,
                 stack_initialized, dispatched, cancel_calls, destroyed,
                 freed, crashed, now>>

\* ---------------------------------------------------- close_max_age_channel
close_max_age_channel_lock ==
  /\ ~crashed
  /\ pc["close_max_age_channel"] = "sched"
  /\ max_age_timer_mu = "none"
  /\ max_age_timer_mu' = "close_max_age_channel"
  /\ pc' = [pc EXCEPT !["close_max_age_channel"] = "locked"]
  /\ Touch
  /\ UNCHANGED <<args, call_elems, init_call_result, max_age_timer_pending, max_age_grace_timer_pending,
                 max_age_timer, max_age_grace_timer, max_connection_age,
                 max_connection_age_grace, refs, owner_ref, ref_taken,
                 ref_released, stack_initialized, dispatched, cancel_calls,
                 destroyed, freed, crashed, now>>

\* the critical section without the write of the flag
close_max_age_channel_critical_KeepsFlag ==
  /\ ~crashed
  /\ pc["close_max_age_channel"] = "locked"
  /\ pc' = [pc EXCEPT !["close_max_age_channel"] = "critical_done"]
  /\ Touch
  /\ UNCHANGED <<args, call_elems, init_call_result, max_age_timer_mu,
                 max_age_timer_pending, max_age_grace_timer_pending,
                 max_age_timer, max_age_grace_timer, max_connection_age,
                 max_connection_age_grace, refs, owner_ref, ref_taken,
                 ref_released, stack_initialized, dispatched, cancel_calls,
                 destroyed, freed, crashed, now>>

close_max_age_channel_critical ==
  /\ ~crashed
  /\ pc["close_max_age_channel"] = "locked"
  /\ max_age_timer_pending' = FALSE
  /\ pc' = [pc EXCEPT !["close_max_age_channel"] = "critical_done"]
  /\ Touch
  /\ UNCHANGED <<args, call_elems, init_call_result, max_age_timer_mu, max_age_grace_timer_pending,
                 max_age_timer, max_age_grace_timer, max_connection_age,
                 max_connection_age_grace, refs, owner_ref, ref_taken,
                 ref_released, stack_initialized, dispatched, cancel_calls,
                 destroyed, freed, crashed, now>>

\* the closure leaves its critical section without gpr_mu_unlock
close_max_age_channel_unlock_KeepsMutex ==
  /\ ~crashed
  /\ pc["close_max_age_channel"] = "critical_done"
  /\ pc' = [pc EXCEPT !["close_max_age_channel"] = "unlocked"]
  /\ Touch
  /\ UNCHANGED <<args, call_elems, init_call_result, max_age_timer_mu,
                 max_age_timer_pending, max_age_grace_timer_pending,
                 max_age_timer, max_age_grace_timer, max_connection_age,
                 max_connection_age_grace, refs, owner_ref, ref_taken,
                 ref_released, stack_initialized, dispatched, cancel_calls,
                 destroyed, freed, crashed, now>>

close_max_age_channel_unlock ==
  /\ ~crashed
  /\ pc["close_max_age_channel"] = "critical_done"
  /\ max_age_timer_mu' = "none"
  /\ pc' = [pc EXCEPT !["close_max_age_channel"] = "unlocked"]
  /\ Touch
  /\ UNCHANGED <<args, call_elems, init_call_result, max_age_timer_pending, max_age_grace_timer_pending,
                 max_age_timer, max_age_grace_timer, max_connection_age,
                 max_connection_age_grace, refs, owner_ref, ref_taken,
                 ref_released, stack_initialized, dispatched, cancel_calls,
                 destroyed, freed, crashed, now>>

\* the test written as error != GRPC_ERROR_CANCELLED
close_max_age_channel_ok_NotCancelled(error) == error # GRPC_ERROR_CANCELLED

\* if (error == GRPC_ERROR_NONE)
close_max_age_channel_ok(error) == error = GRPC_ERROR_NONE

\* the goaway op made with start_max_age_timer_after_init as its on_consumed
\* closure, which arms the age timer again
close_max_age_channel_dispatch_RearmsAge ==
  /\ ~crashed
  /\ pc["close_max_age_channel"] = "unlocked"
  /\ IF max_age_timer.error = GRPC_ERROR_NONE
     THEN /\ refs' = refs + 1
          /\ ref_taken' = ref_taken + 1
          /\ dispatched' = Append(dispatched,
                                  [op |-> "goaway_error", at |-> now])
          /\ pc' = [pc EXCEPT !["close_max_age_channel"] = "done",
                              !["start_max_age_timer_after_init"] = "sched"]
     ELSE /\ pc' = [pc EXCEPT !["close_max_age_channel"] = "done"]
          /\ UNCHANGED <<refs, ref_taken, dispatched>>
  /\ Touch
  /\ UNCHANGED <<args, call_elems, init_call_result, max_age_timer_mu, max_age_timer_pending,
                 max_age_grace_timer_pending, max_age_timer,
                 max_age_grace_timer, max_connection_age,
                 max_connection_age_grace, owner_ref, ref_released,
                 stack_initialized, cancel_calls, destroyed, freed, crashed,
                 now>>

\* the goaway op sent without GRPC_CHANNEL_STACK_REF
close_max_age_channel_dispatch_NoRef ==
  /\ ~crashed
  /\ pc["close_max_age_channel"] = "unlocked"
  /\ IF max_age_timer.error = GRPC_ERROR_NONE
     THEN /\ dispatched' = Append(dispatched,
                                  [op |-> "goaway_error", at |-> now])
          /\ pc' = [pc EXCEPT !["close_max_age_channel"] = "done",
                              !["start_max_age_grace_timer_after_goaway_op"] = "sched"]
     ELSE /\ pc' = [pc EXCEPT !["close_max_age_channel"] = "done"]
          /\ UNCHANGED dispatched
  /\ Touch
  /\ UNCHANGED <<args, call_elems, init_call_result, max_age_timer_mu,
                 max_age_timer_pending, max_age_grace_timer_pending,
                 max_age_timer, max_age_grace_timer, max_connection_age,
                 max_connection_age_grace, refs, ref_taken, owner_ref,
                 ref_released, stack_initialized, cancel_calls, destroyed,
                 freed, crashed, now>>

\* the on_consumed closure also scheduled when no goaway op is sent
close_max_age_channel_dispatch_AlwaysContinues ==
  /\ ~crashed
  /\ pc["close_max_age_channel"] = "unlocked"
  /\ refs' = refs + 1
  /\ ref_taken' = ref_taken + 1
  /\ dispatched' = IF max_age_timer.error = GRPC_ERROR_NONE
                   THEN Append(dispatched, [op |-> "goaway_error", at |-> now])
                   ELSE dispatched
  /\ pc' = [pc EXCEPT !["close_max_age_channel"] = "done",
                      !["start_max_age_grace_timer_after_goaway_op"] = "sched"]
  /\ Touch
  /\ UNCHANGED <<args, call_elems, init_call_result, max_age_timer_mu,
                 max_age_timer_pending, max_age_grace_timer_pending,
                 max_age_timer, max_age_grace_timer, max_connection_age,
                 max_connection_age_grace, owner_ref, ref_released,
                 stack_initialized, cancel_calls, destroyed, freed, crashed,
                 now>>

\* the goaway op handed to the transport twice
close_max_age_channel_dispatch_Twice ==
  /\ ~crashed
  /\ pc["close_max_age_channel"] = "unlocked"
  /\ IF max_age_timer.error = GRPC_ERROR_NONE
     THEN /\ refs' = refs + 1
          /\ ref_taken' = ref_taken + 1
          /\ dispatched' = dispatched \o <<[op |-> "goaway_error", at |-> now],
                                           [op |-> "goaway_error", at |-> now]>>
          /\ pc' = [pc EXCEPT !["close_max_age_channel"] = "done",
                              !["start_max_age_grace_timer_after_goaway_op"] = "sched"]
     ELSE /\ pc' = [pc EXCEPT !["close_max_age_channel"] = "done"]
          /\ UNCHANGED <<refs, ref_taken, dispatched>>
  /\ Touch
  /\ UNCHANGED <<args, call_elems, init_call_result, max_age_timer_mu, max_age_timer_pending,
                 max_age_grace_timer_pending, max_age_timer,
                 max_age_grace_timer, max_connection_age,
                 max_connection_age_grace, owner_ref, ref_released,
                 stack_initialized, cancel_calls, destroyed, freed, crashed,
                 now>>

\* The tail after the unlock: on GRPC_ERROR_NONE take a reference and send
\* the goaway op, whose on_consumed closure is
\* start_max_age_grace_timer_after_goaway_op; otherwise only log.
close_max_age_channel_dispatch ==
  /\ ~crashed
  /\ pc["close_max_age_channel"] = "unlocked"
  /\ IF close_max_age_channel_ok(max_age_timer.error)
     THEN /\ refs' = refs + 1
          /\ ref_taken' = ref_taken + 1
          /\ dispatched' = Append(dispatched,
                                  [op |-> "goaway_error", at |-> now])
          /\ pc' = [pc EXCEPT !["close_max_age_channel"] = "done",
                              !["start_max_age_grace_timer_after_goaway_op"] = "sched"]
     ELSE /\ pc' = [pc EXCEPT !["close_max_age_channel"] = "done"]
          /\ UNCHANGED <<refs, ref_taken, dispatched>>
  /\ Touch
  /\ UNCHANGED <<args, call_elems, init_call_result, max_age_timer_mu, max_age_timer_pending,
                 max_age_grace_timer_pending, max_age_timer,
                 max_age_grace_timer, max_connection_age,
                 max_connection_age_grace, owner_ref, ref_released,
                 stack_initialized, cancel_calls, destroyed, freed, crashed,
                 now>>

\* ---------------------------------------------- force_close_max_age_channel
\* the closure entered without gpr_mu_lock
force_close_max_age_channel_lock_NoLock ==
  /\ ~crashed
  /\ pc["force_close_max_age_channel"] = "sched"
  /\ pc' = [pc EXCEPT !["force_close_max_age_channel"] = "locked"]
  /\ Touch
  /\ UNCHANGED <<args, call_elems, init_call_result, max_age_timer_mu,
                 max_age_timer_pending, max_age_grace_timer_pending,
                 max_age_timer, max_age_grace_timer, max_connection_age,
                 max_connection_age_grace, refs, owner_ref, ref_taken,
                 ref_released, stack_initialized, dispatched, cancel_calls,
                 destroyed, freed, crashed, now>>

force_close_max_age_channel_lock ==
  /\ ~crashed
  /\ pc["force_close_max_age_channel"] = "sched"
  /\ max_age_timer_mu = "none"
  /\ max_age_timer_mu' = "force_close_max_age_channel"
  /\ pc' = [pc EXCEPT !["force_close_max_age_channel"] = "locked"]
  /\ Touch
  /\ UNCHANGED <<args, call_elems, init_call_result, max_age_timer_pending, max_age_grace_timer_pending,
                 max_age_timer, max_age_grace_timer, max_connection_age,
                 max_connection_age_grace, refs, owner_ref, ref_taken,
                 ref_released, stack_initialized, dispatched, cancel_calls,
                 destroyed, freed, crashed, now>>

force_close_max_age_channel_critical ==
  /\ ~crashed
  /\ pc["force_close_max_age_channel"] = "locked"
  /\ max_age_grace_timer_pending' = FALSE
  /\ pc' = [pc EXCEPT !["force_close_max_age_channel"] = "critical_done"]
  /\ Touch
  /\ UNCHANGED <<args, call_elems, init_call_result, max_age_timer_mu, max_age_timer_pending,
                 max_age_timer, max_age_grace_timer, max_connection_age,
                 max_connection_age_grace, refs, owner_ref, ref_taken,
                 ref_released, stack_initialized, dispatched, cancel_calls,
                 destroyed, freed, crashed, now>>

force_close_max_age_channel_unlock ==
  /\ ~crashed
  /\ pc["force_close_max_age_channel"] = "critical_done"
  /\ max_age_timer_mu' = "none"
  /\ pc' = [pc EXCEPT !["force_close_max_age_channel"] = "unlocked"]
  /\ Touch
  /\ UNCHANGED <<args, call_elems, init_call_result, max_age_timer_pending, max_age_grace_timer_pending,
                 max_age_timer, max_age_grace_timer, max_connection_age,
                 max_connection_age_grace, refs, owner_ref, ref_taken,
                 ref_released, stack_initialized, dispatched, cancel_calls,
                 destroyed, freed, crashed, now>>

\* the test written as error != GRPC_ERROR_CANCELLED
force_close_max_age_channel_ok_NotCancelled(error) == error # GRPC_ERROR_CANCELLED

\* if (error == GRPC_ERROR_NONE)
force_close_max_age_channel_ok(error) == error = GRPC_ERROR_NONE

\* The tail after the unlock: on GRPC_ERROR_NONE send the disconnect op
\* (made with no on_consumed closure); otherwise only log.
force_close_max_age_channel_dispatch ==
  /\ ~crashed
  /\ pc["force_close_max_age_channel"] = "unlocked"
  /\ IF force_close_max_age_channel_ok(max_age_grace_timer.error)
     THEN dispatched' = Append(dispatched,
                               [op |-> "disconnect_with_error", at |-> now])
     ELSE UNCHANGED dispatched
  /\ pc' = [pc EXCEPT !["force_close_max_age_channel"] = "done"]
  /\ Touch
  /\ UNCHANGED <<args, call_elems, init_call_result, max_age_timer_mu, max_age_timer_pending,
                 max_age_grace_timer_pending, max_age_timer,
                 max_age_grace_timer, max_connection_age,
                 max_connection_age_grace, refs, owner_ref, ref_taken,
                 ref_released, stack_initialized, cancel_calls, destroyed,
                 freed, crashed, now>>

\* ----------------------------------------------------- destroy_channel_elem
destroy_channel_elem_lock ==
  /\ ~crashed
  /\ pc["destroy_channel_elem"] = "sched"
  /\ max_age_timer_mu = "none"
  /\ max_age_timer_mu' = "destroy_channel_elem"
  /\ pc' = [pc EXCEPT !["destroy_channel_elem"] = "locked"]
  /\ UNCHANGED <<args, call_elems, init_call_result, max_age_timer_pending, max_age_grace_timer_pending,
                 max_age_timer, max_age_grace_timer, max_connection_age,
                 max_connection_age_grace, refs, owner_ref, ref_taken,
                 ref_released, stack_initialized, dispatched, cancel_calls,
                 destroyed, freed, uaf, crashed, now>>

\* both timers cancelled without looking at the pending flags
TimersToCancel_Unconditional == {"max_age_timer", "max_age_grace_timer"}

\* the timers destroy_channel_elem calls grpc_timer_cancel on
TimersToCancel ==
  (IF max_age_timer_pending THEN {"max_age_timer"} ELSE {})
  \cup (IF max_age_grace_timer_pending THEN {"max_age_grace_timer"} ELSE {})

destroy_channel_elem_critical ==
  /\ ~crashed
  /\ pc["destroy_channel_elem"] = "locked"
  /\ max_age_timer' = IF "max_age_timer" \in TimersToCancel
                      THEN grpc_timer_cancel(max_age_timer) ELSE max_age_timer
  /\ max_age_grace_timer' = IF "max_age_grace_timer" \in TimersToCancel
                            THEN grpc_timer_cancel(max_age_grace_timer)
                            ELSE max_age_grace_timer
  /\ cancel_calls' = TimersToCancel
  /\ pc' = SchedOnFire(
             SchedOnFire([pc EXCEPT !["destroy_channel_elem"] = "critical_done"],
                         "close_max_age_channel", max_age_timer, max_age_timer'),
             "force_close_max_age_channel", max_age_grace_timer, max_age_grace_timer')
  /\ UNCHANGED <<args, call_elems, init_call_result, max_age_timer_mu, max_age_timer_pending,
                 max_age_grace_timer_pending, max_connection_age,
                 max_connection_age_grace, refs, owner_ref, ref_taken,
                 ref_released, stack_initialized, dispatched, destroyed,
                 freed, uaf, crashed, now>>

destroy_channel_elem_unlock ==
  /\ ~crashed
  /\ pc["destroy_channel_elem"] = "critical_done"
  /\ max_age_timer_mu' = "none"
  /\ destroyed' = destroyed + 1
  /\ pc' = [pc EXCEPT !["destroy_channel_elem"] = "returned"]
  /\ UNCHANGED <<args, call_elems, init_call_result, max_age_timer_pending, max_age_grace_timer_pending,
                 max_age_timer, max_age_grace_timer, max_connection_age,
                 max_connection_age_grace, refs, owner_ref, ref_taken,
                 ref_released, stack_initialized, dispatched, cancel_calls,
                 freed, uaf, crashed, now>>

\* ------------------------------------------------------------- environment
\* channel stack: once destroy_channel_elem has returned the stack, and the
\* channel_data embedded in it, is released.
channel_stack_free ==
  /\ ~crashed
  /\ pc["destroy_channel_elem"] = "returned"
  /\ freed' = TRUE
  /\ pc' = [pc EXCEPT !["destroy_channel_elem"] = "done"]
  /\ UNCHANGED <<args, call_elems, init_call_result, max_age_timer_mu, max_age_timer_pending,
                 max_age_grace_timer_pending, max_age_timer,
                 max_age_grace_timer, max_connection_age,
                 max_connection_age_grace, refs, owner_ref, ref_taken,
                 ref_released, stack_initialized, dispatched, cancel_calls,
                 destroyed, uaf, crashed, now>>

\* the channel drops the reference it has held since the stack was built
channel_unref ==
  /\ ~crashed
  /\ stack_initialized
  /\ owner_ref
  /\ owner_ref' = FALSE
  /\ refs' = refs - 1
  /\ pc' = ChannelStackUnref(pc, refs')
  /\ UNCHANGED <<args, call_elems, init_call_result, max_age_timer_mu, max_age_timer_pending,
                 max_age_grace_timer_pending, max_age_timer,
                 max_age_grace_timer, max_connection_age,
                 max_connection_age_grace, ref_taken, ref_released,
                 stack_initialized, dispatched, cancel_calls, destroyed,
                 freed, uaf, crashed, now>>

\* timer subsystem: a timer in the list leaves it with the given error
PopTimer(timer, error) == [timer EXCEPT !.state = "fired", !.error = error]

\* timer subsystem: the scheduler takes a timer whose deadline has passed out
\* of the list and runs its closure with GRPC_ERROR_NONE.
grpc_timer_check ==
  /\ ~crashed
  /\ \/ /\ max_age_timer.state = "armed"
        /\ gpr_time_cmp(max_age_timer.deadline, gpr_time_from_seconds(now)) <= 0
        /\ max_age_timer' = PopTimer(max_age_timer, GRPC_ERROR_NONE)
        /\ pc' = [pc EXCEPT !["close_max_age_channel"] = "sched"]
        /\ UNCHANGED max_age_grace_timer
     \/ /\ max_age_grace_timer.state = "armed"
        /\ gpr_time_cmp(max_age_grace_timer.deadline, gpr_time_from_seconds(now)) <= 0
        /\ max_age_grace_timer' = PopTimer(max_age_grace_timer, GRPC_ERROR_NONE)
        /\ pc' = [pc EXCEPT !["force_close_max_age_channel"] = "sched"]
        /\ UNCHANGED max_age_timer
  /\ UNCHANGED <<args, call_elems, init_call_result, max_age_timer_mu, max_age_timer_pending,
                 max_age_grace_timer_pending, max_connection_age,
                 max_connection_age_grace, refs, owner_ref, ref_taken,
                 ref_released, stack_initialized, dispatched, cancel_calls,
                 destroyed, freed, uaf, crashed, now>>

\* timer subsystem: a timer in the list is run with an error that is neither
\* GRPC_ERROR_NONE nor GRPC_ERROR_CANCELLED (the timer list shuts down).
grpc_timer_list_shutdown ==
  /\ ~crashed
  /\ \/ /\ max_age_timer.state = "armed"
        /\ max_age_timer' = PopTimer(max_age_timer, GRPC_ERROR_OTHER)
        /\ pc' = [pc EXCEPT !["close_max_age_channel"] = "sched"]
        /\ UNCHANGED max_age_grace_timer
     \/ /\ max_age_grace_timer.state = "armed"
        /\ max_age_grace_timer' = PopTimer(max_age_grace_timer, GRPC_ERROR_OTHER)
        /\ pc' = [pc EXCEPT !["force_close_max_age_channel"] = "sched"]
        /\ UNCHANGED max_age_timer
  /\ UNCHANGED <<args, call_elems, init_call_result, max_age_timer_mu, max_age_timer_pending,
                 max_age_grace_timer_pending, max_connection_age,
                 max_connection_age_grace, refs, owner_ref, ref_taken,
                 ref_released, stack_initialized, dispatched, cancel_calls,
                 destroyed, freed, uaf, crashed, now>>

\* a timer waits for a deadline that the clock has not reached
TimerDue(timer) ==
  /\ timer.state = "armed"
  /\ ~timer.deadline.inf
  /\ timer.deadline.tv_sec > now

\* the monotonic clock advances by one second
Tick ==
  /\ ~crashed
  /\ now < MaxNow \/ TimerDue(max_age_timer) \/ TimerDue(max_age_grace_timer)
  /\ now' = now + 1
  /\ UNCHANGED <<args, call_elems, init_call_result, max_age_timer_mu, max_age_timer_pending,
                 max_age_grace_timer_pending, max_age_timer,
                 max_age_grace_timer, max_connection_age,
                 max_connection_age_grace, pc, refs, owner_ref, ref_taken,
                 ref_released, stack_initialized, dispatched, cancel_calls,
                 destroyed, freed, uaf, crashed>>

\* a closure that is still to run, or is running, on released memory faults
Crash ==
  /\ ~crashed
  /\ freed
  /\ \E h \in Closures : pc[h] \notin {"idle", "done"}
  /\ crashed' = TRUE
  /\ uaf' = TRUE
  /\ UNCHANGED <<args, call_elems, init_call_result, max_age_timer_mu, max_age_timer_pending,
                 max_age_grace_timer_pending, max_age_timer,
                 max_age_grace_timer, max_connection_age,
                 max_connection_age_grace, pc, refs, owner_ref, ref_taken,
                 ref_released, stack_initialized, dispatched, cancel_calls,
                 destroyed, freed, now>>

\* ------------------------------------------------------------ specification
ClosureStep ==
  \/ start_max_age_timer_after_init_lock
  \/ start_max_age_timer_after_init_critical
  \/ start_max_age_timer_after_init_unlock
  \/ start_max_age_timer_after_init_unref
  \/ close_max_age_channel_lock
  \/ close_max_age_channel_critical
  \/ close_max_age_channel_unlock
  \/ close_max_age_channel_dispatch
  \/ start_max_age_grace_timer_after_goaway_op_lock
  \/ start_max_age_grace_timer_after_goaway_op_critical
  \/ start_max_age_grace_timer_after_goaway_op_unlock
  \/ start_max_age_grace_timer_after_goaway_op_unref
  \/ force_close_max_age_channel_lock
  \/ force_close_max_age_channel_critical
  \/ force_close_max_age_channel_unlock
  \/ force_close_max_age_channel_dispatch

DestroyStep ==
  \/ destroy_channel_elem_lock
  \/ destroy_channel_elem_critical
  \/ destroy_channel_elem_unlock
  \/ channel_stack_free

Next ==
  \/ init_channel_elem
  \/ channel_stack_init_done
  \/ ClosureStep
  \/ DestroyStep
  \/ channel_unref
  \/ grpc_timer_check
  \/ grpc_timer_list_shutdown
  \/ Tick
  \/ Crash

Spec == Init /\ [][Next]_vars

\* A connection with two finite, explicitly configured durations on which no
\* teardown happens and no timer is run with an error: every closure that is
\* scheduled runs, the clock advances and a due timer is taken off the list.
FiniteArg == [key : ArgKeys, value : 1..MaxSec]
FinitePairs == {as \in [1..2 -> FiniteArg] : as[1].key # as[2].key}

LiveInit == Init /\ args \in FinitePairs

LiveNext ==
  \/ init_channel_elem
  \/ channel_stack_init_done
  \/ ClosureStep
  \/ grpc_timer_check
  \/ Tick

LiveSpec ==
  /\ LiveInit
  /\ [][LiveNext]_vars
  /\ WF_vars(init_channel_elem)
  /\ WF_vars(channel_stack_init_done)
  /\ WF_vars(ClosureStep)
  /\ WF_vars(grpc_timer_check)
  /\ WF_vars(Tick)

\* ------------------------------------------- init_call_elem / destroy_call_elem
\* a constructor that takes a reference to the channel stack for the call
init_call_elem_TakesRef ==
  /\ ~crashed /\ ~freed
  /\ stack_initialized
  /\ call_elems < MaxCalls
  /\ call_elems' = call_elems + 1
  /\ init_call_result' = GRPC_ERROR_NONE
  /\ refs' = refs + 1
  /\ UNCHANGED <<args, max_age_timer_mu, max_age_timer_pending,
                 max_age_grace_timer_pending, max_age_timer,
                 max_age_grace_timer, max_connection_age,
                 max_connection_age_grace, pc, owner_ref, ref_taken,
                 ref_released, stack_initialized, dispatched, cancel_calls,
                 destroyed, freed, uaf, crashed, now>>

\* The constructor of a call element: sizeof_call_data is 0 and the body only
\* returns GRPC_ERROR_NONE. The pipeline then counts one more call element.
init_call_elem ==
  /\ ~crashed /\ ~freed
  /\ stack_initialized
  /\ call_elems < MaxCalls
  /\ call_elems' = call_elems + 1
  /\ init_call_result' = GRPC_ERROR_NONE
  /\ UNCHANGED <<args, max_age_timer_mu, max_age_timer_pending,
                 max_age_grace_timer_pending, max_age_timer,
                 max_age_grace_timer, max_connection_age,
                 max_connection_age_grace, pc, refs, owner_ref, ref_taken,
                 ref_released, stack_initialized, dispatched, cancel_calls,
                 destroyed, freed, uaf, crashed, now>>

\* The destructor of a call element: the body is empty.
destroy_call_elem ==
  /\ ~crashed
  /\ call_elems > 0
  /\ call_elems' = call_elems - 1
  /\ UNCHANGED <<args, init_call_result, max_age_timer_mu,
                 max_age_timer_pending, max_age_grace_timer_pending,
                 max_age_timer, max_age_grace_timer, max_connection_age,
                 max_connection_age_grace, pc, refs, owner_ref, ref_taken,
                 ref_released, stack_initialized, dispatched, cancel_calls,
                 destroyed, freed, uaf, crashed, now>>

\* The channel with calls flowing through it. The hooks touch no field of
\* channel_data, so Spec leaves them out; here they interleave with every
\* closure and with the destructor, on connections given at most one argument.
CallArgLists == UNION {[1..n -> Arg] : n \in 0..1}

CallInit == Init /\ args \in CallArgLists

CallNext ==
  \/ Next
  \/ init_call_elem
  \/ destroy_call_elem

CallSpec == CallInit /\ [][CallNext]_vars

\* ------------------------------------------------------------- vocabulary
Constructed == pc["init_channel_elem"] = "done"

OpCount(name) == Cardinality({i \in 1..Len(dispatched) : dispatched[i].op = name})
GoawayCount == OpCount("goaway_error")
DisconnectCount == OpCount("disconnect_with_error")

\* the value of the last argument with the given key, INT_MAX when absent
Configured(key) ==
  LET idx == {i \in 1..Len(args) : args[i].key = key}
  IN IF idx = {} THEN INT_MAX
     ELSE args[CHOOSE i \in idx : \A j \in idx : j <= i].value
HasArg(key) == \E i \in 1..Len(args) : args[i].key = key

\* the duration a configured number of seconds stands for
Duration(v) == IF v = INT_MAX THEN [inf |-> TRUE, tv_sec |-> 0]
               ELSE [inf |-> FALSE, tv_sec |-> v]
\* a deadline of arm-time + duration
After(t, d) == IF d.inf THEN [inf |-> TRUE, tv_sec |-> 0]
               ELSE [inf |-> FALSE, tv_sec |-> t + d.tv_sec]

\* references this filter holds: taken and not yet released
KeepAliveRefs == ref_taken - ref_released

\* a closure that is scheduled or running
Running(h) == pc[h] \notin {"idle", "done"}

\* ------------------------------------------------------------------ claims

\* C1: once destroy_channel_elem has run, no goaway op and no disconnect op
\* is dispatched any more, whatever the interleaving of timer fire and cancel.
C1_NoDispatchAfterTeardown ==
  [][destroyed >= 1 => dispatched' = dispatched]_vars

\* an asynchronous operation of the filter is outstanding: the deferred start,
\* an armed age timer whose closure has not finished, the goaway continuation,
\* or an armed grace timer whose closure has not finished
OutstandingOperation ==
  \/ Running("start_max_age_timer_after_init")
  \/ max_age_timer.state = "armed"
  \/ Running("close_max_age_channel")
  \/ Running("start_max_age_grace_timer_after_goaway_op")
  \/ max_age_grace_timer.state = "armed"
  \/ Running("force_close_max_age_channel")

\* C2: while any asynchronous operation of the filter is outstanding the
\* filter holds at least one reference to the channel stack, and so no closure
\* ever touches channel_data or the channel stack after it was freed.
C2_KeepAliveWhileOutstanding ==
  /\ OutstandingOperation => KeepAliveRefs >= 1
  /\ ~uaf

\* C3: with max_age configured Infinite (whatever the grace value) no timer is
\* armed, no closure is scheduled, no reference is taken, no op is dispatched
\* and both pending flags stay false.
C3_InfiniteMaxAgeInert ==
  (Constructed /\ Configured(GPRC_ARG_MAX_CONNECION_AGE_S) = INT_MAX) =>
    /\ max_age_timer.state = "unarmed"
    /\ max_age_grace_timer.state = "unarmed"
    /\ \A h \in Closures : pc[h] = "idle"
    /\ ref_taken = 0
    /\ ref_released = 0
    /\ dispatched = <<>>
    /\ cancel_calls = {}
    /\ ~max_age_timer_pending
    /\ ~max_age_grace_timer_pending

C3_Witness ==
  /\ Constructed
  /\ Configured(GPRC_ARG_MAX_CONNECION_AGE_S) = INT_MAX
  /\ Configured(GPRC_ARG_MAX_CONNECION_AGE_GRACE_S) = 2
  /\ now >= 2
  /\ freed

\* C4: a disconnect op is dispatched only by the tail of
\* force_close_max_age_channel, run with GRPC_ERROR_NONE, and only after a
\* goaway op has been dispatched.
C4_DisconnectOnlyAfterGoawayOnOk ==
  [][DisconnectCount' # DisconnectCount =>
       /\ GoawayCount >= 1
       /\ pc["force_close_max_age_channel"] = "unlocked"
       /\ pc'["force_close_max_age_channel"] = "done"
       /\ max_age_grace_timer.state = "fired"
       /\ max_age_grace_timer.error = GRPC_ERROR_NONE
       /\ \A h \in Handlers \ {"force_close_max_age_channel"} : pc'[h] = pc[h]
       /\ dispatched[1].op = "goaway_error"]_vars

C4_Witness ==
  /\ DisconnectCount = 1
  /\ dispatched[1].op = "goaway_error"
  /\ max_age_grace_timer.error = GRPC_ERROR_NONE

\* C5: per connection the goaway op is dispatched at most once and the
\* disconnect op is dispatched at most once.
C5_AtMostOnce ==
  /\ GoawayCount <= 1
  /\ DisconnectCount <= 1

C5_Witness ==
  /\ GoawayCount = 1
  /\ DisconnectCount = 1
  /\ pc["force_close_max_age_channel"] = "done"
  /\ destroyed >= 1

\* the configured durations, as the claims read them off the arguments
ConfiguredMaxAge == Duration(Configured(GPRC_ARG_MAX_CONNECION_AGE_S))
ConfiguredMaxAgeGrace == Duration(Configured(GPRC_ARG_MAX_CONNECION_AGE_GRACE_S))

\* no op is dispatched early or twice: the goaway op not before max_age has
\* elapsed since the age timer was armed, the disconnect op not before
\* max_age_grace has elapsed since the grace timer was armed, and never
\* before the goaway op
C6_NeverEarly ==
  /\ GoawayCount <= 1
  /\ DisconnectCount <= 1
  /\ \A i \in 1..Len(dispatched) :
       /\ dispatched[i].op = "goaway_error" =>
            /\ max_age_timer.state = "fired"
            /\ dispatched[i].at >= max_age_timer.armed_at + ConfiguredMaxAge.tv_sec
       /\ dispatched[i].op = "disconnect_with_error" =>
            /\ i = 2
            /\ dispatched[1].op = "goaway_error"
            /\ max_age_grace_timer.state = "fired"
            /\ max_age_grace_timer.armed_at >= dispatched[1].at
            /\ dispatched[i].at >=
                 max_age_grace_timer.armed_at + ConfiguredMaxAgeGrace.tv_sec

C6_BothDispatched ==
  /\ Len(dispatched) = 2
  /\ dispatched[1].op = "goaway_error"
  /\ dispatched[2].op = "disconnect_with_error"

\* C6: with finite max_age and max_age_grace, no teardown and timers that fire
\* with GRPC_ERROR_NONE, exactly one goaway op is eventually dispatched, not
\* before max_age has elapsed, and then exactly one disconnect op, not before
\* a further max_age_grace has elapsed.
C6_GoawayThenDisconnect ==
  /\ []C6_NeverEarly
  /\ <>[]C6_BothDispatched

C6_Witness ==
  /\ C6_BothDispatched
  /\ ConfiguredMaxAge.tv_sec = 2
  /\ ConfiguredMaxAgeGrace.tv_sec = 1
  /\ dispatched[2].at >= 3

\* timers that were armed and whose closure has not yet cleared its flag
OutstandingTimers ==
  (IF /\ max_age_timer.state # "unarmed"
      /\ pc["close_max_age_channel"] \in {"idle", "sched", "locked"}
   THEN {"max_age_timer"} ELSE {})
  \cup
  (IF /\ max_age_grace_timer.state # "unarmed"
      /\ pc["force_close_max_age_channel"] \in {"idle", "sched", "locked"}
   THEN {"max_age_grace_timer"} ELSE {})

\* C7: destroy_channel_elem calls grpc_timer_cancel on exactly the timers that
\* are outstanding at that moment, it does so holding the mutex, and nothing
\* else ever requests a cancellation.
C7_CancelsExactlyOutstanding ==
  [][(\/ cancel_calls' # cancel_calls
      \/ /\ pc["destroy_channel_elem"] = "locked"
         /\ pc'["destroy_channel_elem"] = "critical_done") =>
       /\ max_age_timer_mu = "destroy_channel_elem"
       /\ max_age_timer_mu' = "destroy_channel_elem"
       /\ pc["destroy_channel_elem"] = "locked"
       /\ cancel_calls' = OutstandingTimers]_vars

C7_Witness ==
  /\ destroyed >= 1
  /\ cancel_calls = {"max_age_grace_timer"}
  /\ pc["close_max_age_channel"] = "done"
  /\ max_age_grace_timer.error = GRPC_ERROR_CANCELLED

\* C8: after initialization, max_age_grace is Infinite when no grace argument
\* was supplied and max_age is Infinite when no age argument was supplied.
C8_DefaultsInfinite ==
  Constructed =>
    /\ ~HasArg(GPRC_ARG_MAX_CONNECION_AGE_GRACE_S) =>
         max_connection_age_grace = Duration(INT_MAX)
    /\ ~HasArg(GPRC_ARG_MAX_CONNECION_AGE_S) =>
         max_connection_age = Duration(INT_MAX)

\* both durations are given explicitly, in either order
BothConfigured ==
  /\ Len(args) = 2
  /\ {args[1].key, args[2].key} = ArgKeys

\* C9: with both durations given explicitly, in either order, max_age and
\* max_age_grace are the given seconds (Infinite for INT_MAX), and each timer
\* is armed with the deadline arm-time + its own duration.
C9_ConfiguredDurationsHonoured ==
  (Constructed /\ BothConfigured) =>
    /\ max_connection_age = ConfiguredMaxAge
    /\ max_connection_age_grace = ConfiguredMaxAgeGrace
    /\ max_age_timer.state # "unarmed" =>
         max_age_timer.deadline = After(max_age_timer.armed_at, ConfiguredMaxAge)
    /\ max_age_grace_timer.state # "unarmed" =>
         max_age_grace_timer.deadline =
           After(max_age_grace_timer.armed_at, ConfiguredMaxAgeGrace)

C9_Witness ==
  /\ args = <<[key |-> GPRC_ARG_MAX_CONNECION_AGE_GRACE_S, value |-> 2],
              [key |-> GPRC_ARG_MAX_CONNECION_AGE_S, value |-> 1]>>
  /\ max_age_grace_timer.state = "armed"
  /\ max_age_grace_timer.armed_at >= 1
  /\ max_age_grace_timer.deadline.tv_sec = max_age_grace_timer.armed_at + 2

\* the timer a timer closure belongs to
TimerOf(h) == IF h = "close_max_age_channel" THEN max_age_timer
              ELSE max_age_grace_timer
TimerClosures == {"close_max_age_channel", "force_close_max_age_channel"}

\* C10: a timer closure run with GRPC_ERROR_CANCELLED or another error clears
\* its own pending flag and does nothing else: no op, no timer, no reference,
\* no closure scheduled, the other flag untouched; after another error on the
\* age timer no op is ever dispatched.
C10_ErrorStatusOnlyClearsFlag ==
  /\ [][\A h \in TimerClosures :
          (pc'[h] # pc[h] /\ Running(h) /\ pc[h] # "sched"
             /\ TimerOf(h).error # GRPC_ERROR_NONE) =>
            /\ dispatched' = dispatched
            /\ refs' = refs /\ ref_taken' = ref_taken
            /\ ref_released' = ref_released
            /\ max_age_timer' = max_age_timer
            /\ max_age_grace_timer' = max_age_grace_timer
            /\ cancel_calls' = cancel_calls
            /\ \A g \in Handlers \ {h} : pc'[g] = pc[g]
            /\ IF h = "close_max_age_channel"
               THEN /\ max_age_grace_timer_pending' = max_age_grace_timer_pending
                    /\ pc[h] = "locked" => ~max_age_timer_pending'
                    /\ pc'[h] = "done" => ~max_age_timer_pending'
               ELSE /\ max_age_timer_pending' = max_age_timer_pending
                    /\ pc[h] = "locked" => ~max_age_grace_timer_pending'
                    /\ pc'[h] = "done" => ~max_age_grace_timer_pending']_vars
  /\ [](max_age_timer.error # GRPC_ERROR_NONE => dispatched = <<>>)

C10_Witness ==
  /\ pc["close_max_age_channel"] = "done"
  /\ max_age_timer.error = GRPC_ERROR_OTHER
  /\ ~max_age_timer_pending
  /\ ~freed

\* a step that calls grpc_timer_init on the timer: the critical section of
\* the closure that arms it, or any step that puts the timer in the list
ArmsAgeTimer ==
  \/ /\ pc["start_max_age_timer_after_init"] = "locked"
     /\ pc'["start_max_age_timer_after_init"] = "critical_done"
  \/ max_age_timer'.state = "armed" /\ max_age_timer # max_age_timer'
ArmsGraceTimer ==
  \/ /\ pc["start_max_age_grace_timer_after_goaway_op"] = "locked"
     /\ pc'["start_max_age_grace_timer_after_goaway_op"] = "critical_done"
  \/ max_age_grace_timer'.state = "armed"
       /\ max_age_grace_timer # max_age_grace_timer'

\* C11: the age timer is armed at most once and the grace timer at most once:
\* a timer is armed only while it has never been armed and its flag is clear,
\* and an armed timer never goes back to being unarmed.
C11_EachTimerArmedOnce ==
  [][/\ ArmsAgeTimer =>
          max_age_timer.state = "unarmed" /\ ~max_age_timer_pending
     /\ ArmsGraceTimer =>
          max_age_grace_timer.state = "unarmed" /\ ~max_age_grace_timer_pending
     /\ max_age_timer.state # "unarmed" => max_age_timer'.state # "unarmed"
     /\ max_age_grace_timer.state # "unarmed" =>
          max_age_grace_timer'.state # "unarmed"]_vars

C11_Witness ==
  /\ max_age_timer.state = "fired"
  /\ pc["close_max_age_channel"] = "done"
  /\ max_age_grace_timer.state = "armed"
  /\ max_age_grace_timer_pending
  /\ ~max_age_timer_pending

\* the state of the Governor: durations, flags, timers, mutex, the reference
\* count of the channel stack, and everything the closures have done
GovernorState ==
  <<max_connection_age, max_connection_age_grace, max_age_timer_pending,
    max_age_grace_timer_pending, max_age_timer, max_age_grace_timer,
    max_age_timer_mu, refs, ref_taken, ref_released, pc, dispatched,
    cancel_calls>>

\* C12: init_call_elem and destroy_call_elem leave every piece of Governor
\* state unchanged, whatever the closures and the destructor are doing, and
\* init_call_elem always returns GRPC_ERROR_NONE.
C12_CallHooksChangeNothing ==
  [][call_elems' # call_elems =>
       /\ GovernorState' = GovernorState
       /\ call_elems' > call_elems => init_call_result' = GRPC_ERROR_NONE]_vars

C12_Witness ==
  /\ call_elems = 1
  /\ init_call_result = GRPC_ERROR_NONE
  /\ pc["close_max_age_channel"] = "locked"
  /\ pc["destroy_channel_elem"] = "sched"

\* the timer was armed and has neither fired (been taken off the list with
\* GRPC_ERROR_NONE) nor been cancelled
ArmedNotFiredNorCancelled(timer) ==
  /\ timer.state # "unarmed"
  /\ timer.state = "fired" => timer.error = GRPC_ERROR_OTHER

\* C13 as stated: each pending flag is true exactly while its timer is armed
\* and has neither fired nor been cancelled, so it is false as soon as the
\* scheduler has taken the timer off the list or a cancellation took effect.
C13_FlagIffTimerInList ==
  Constructed =>
    /\ max_age_timer_pending <=> ArmedNotFiredNorCancelled(max_age_timer)
    /\ max_age_grace_timer_pending <=>
         ArmedNotFiredNorCancelled(max_age_grace_timer)

\* C13 as amended: each pending flag is true exactly from the arming of its
\* timer until the timer's closure clears it in its critical section; it
\* stays true after the timer has fired or been cancelled until then.
C13_FlagIffClosurePending ==
  Constructed =>
    /\ max_age_timer_pending <=> "max_age_timer" \in OutstandingTimers
    /\ max_age_grace_timer_pending <=> "max_age_grace_timer" \in OutstandingTimers

C13_Witness ==
  /\ max_age_timer.state = "fired"
  /\ max_age_timer.error = GRPC_ERROR_CANCELLED
  /\ pc["close_max_age_channel"] = "sched"
  /\ max_age_timer_pending
  /\ destroyed >= 1

One(b) == IF b THEN 1 ELSE 0

\* C14: the filter takes one reference when it schedules
\* start_max_age_timer_after_init and one for every goaway op it sends, each
\* is released exactly once by the closure it was taken for, so the net count
\* is one per closure still to run, never negative, and zero once they ran.
C14_ReferencesBalanced ==
  Constructed =>
    /\ ref_taken = One(pc["start_max_age_timer_after_init"] # "idle") + GoawayCount
    /\ ref_released =
         One(pc["start_max_age_timer_after_init"] = "done")
         + One(pc["start_max_age_grace_timer_after_goaway_op"] = "done")
    /\ KeepAliveRefs =
         One(Running("start_max_age_timer_after_init"))
         + One(Running("start_max_age_grace_timer_after_goaway_op"))
    /\ KeepAliveRefs >= 0
    /\ refs = One(owner_ref) + KeepAliveRefs

C14_Witness ==
  /\ ref_taken = 2
  /\ ref_released = 2
  /\ \A h \in Closures : pc[h] = "done"

\* C15: the grace timer is armed only after the goaway op was dispatched: its
\* flag, the timer and the closure that arms it exist only once a goaway op is
\* in the log, and the timer is armed no earlier than that op was sent.
C15_GraceTimerOnlyAfterGoaway ==
  (/\ Constructed
   /\ \/ max_age_grace_timer_pending
      \/ max_age_grace_timer.state # "unarmed"
      \/ pc["start_max_age_grace_timer_after_goaway_op"] # "idle"
      \/ pc["force_close_max_age_channel"] # "idle") =>
    /\ GoawayCount = 1
    /\ dispatched[1].op = "goaway_error"
    /\ max_age_grace_timer.state # "unarmed" =>
         max_age_grace_timer.armed_at >= dispatched[1].at

C15_Witness ==
  /\ max_age_grace_timer_pending
  /\ max_age_grace_timer.state = "armed"
  /\ GoawayCount = 1
  /\ max_age_grace_timer.armed_at > dispatched[1].at

\* the step in which init_channel_elem runs
InitStep ==
  /\ pc["init_channel_elem"] = "sched"
  /\ pc'["init_channel_elem"] = "done"

\* C16: with a finite max_age, init_channel_elem leaves the age timer unarmed,
\* takes one reference and schedules start_max_age_timer_after_init, which is
\* scheduled by nothing else; the age timer is armed and ops are dispatched
\* only once the channel stack is fully initialized.
C16_TimerStartDeferred ==
  /\ [][/\ (InitStep /\ Configured(GPRC_ARG_MAX_CONNECION_AGE_S) # INT_MAX) =>
             /\ max_age_timer' = UnarmedTimer
             /\ ~max_age_timer_pending'
             /\ ref_taken' = ref_taken + 1
             /\ refs' = refs + 1
             /\ pc["start_max_age_timer_after_init"] = "idle"
             /\ pc'["start_max_age_timer_after_init"] = "sched"
        /\ (/\ pc'["start_max_age_timer_after_init"] = "sched"
            /\ pc["start_max_age_timer_after_init"] # "sched") => InitStep]_vars
  /\ [](\/ max_age_timer.state # "unarmed"
        \/ dispatched # <<>>
        \/ pc["start_max_age_timer_after_init"] \notin {"idle", "sched"}
        => stack_initialized)

C16_Witness ==
  /\ Constructed
  /\ ~stack_initialized
  /\ pc["start_max_age_timer_after_init"] = "sched"
  /\ max_age_timer.state = "unarmed"
  /\ refs = 2

\* a step that writes a pending flag, or arms or cancels a timer
WritesFlagOrTimer ==
  \/ max_age_timer_pending' # max_age_timer_pending
  \/ max_age_grace_timer_pending' # max_age_grace_timer_pending
  \/ ArmsAgeTimer
  \/ ArmsGraceTimer
  \/ cancel_calls' # cancel_calls
  \/ \E h \in Handlers : pc[h] = "locked" /\ pc'[h] = "critical_done"

\* the step is taken inside a critical section by the holder of the mutex
ByMutexHolder ==
  \E h \in Handlers :
    /\ max_age_timer_mu = h
    /\ max_age_timer_mu' = h
    /\ pc[h] = "locked"
    /\ pc'[h] = "critical_done"

\* C17 as stated: every write of a pending flag and every timer arm or cancel,
\* in every operation including initialization, is made holding the mutex.
C17_AllWritesUnderMutex ==
  [][(WritesFlagOrTimer \/ InitStep) => ByMutexHolder]_vars

\* C17 as amended: every write of a pending flag and every timer arm or
\* cancel in the four closures and in destroy_channel_elem is made holding
\* the mutex; init_channel_elem writes both flags without holding it.
C17_WritesUnderMutexAfterInit ==
  [][/\ (WritesFlagOrTimer /\ ~InitStep) => ByMutexHolder
     /\ InitStep => /\ max_age_timer_mu = "none"
                    /\ max_age_timer_mu' = "none"
                    /\ ~max_age_timer_pending'
                    /\ ~max_age_grace_timer_pending']_vars

C17_Witness ==
  /\ pc["destroy_channel_elem"] = "critical_done"
  /\ max_age_timer_mu = "destroy_channel_elem"
  /\ cancel_calls = {"max_age_timer"}
  /\ max_age_timer.error = GRPC_ERROR_CANCELLED
  /\ pc["close_max_age_channel"] = "sched"

\* a step that dispatches a transport op or takes or releases a channel
\* stack reference on behalf of the filter
DispatchesOrRefs ==
  \/ dispatched' # dispatched
  \/ ref_taken' # ref_taken
  \/ ref_released' # ref_released

\* the handlers that take a step
Stepping(h) == pc'[h] # pc[h]

\* the handler that holds the mutex takes a step
HolderStep ==
  /\ ClosureStep \/ DestroyStep
  /\ Stepping(max_age_timer_mu)

\* C18: no handler dispatches a transport op or takes or releases a channel
\* stack reference while holding the mutex; in both timer callbacks the
\* mutex is released before the dispatch; the mutex is held only inside a
\* critical section, whose holder can always take its next step, so a
\* handler waiting for the mutex is never blocked for ever.
C18_NoDispatchUnderMutex ==
  /\ [][/\ DispatchesOrRefs =>
             \A h \in DOMAIN pc :
               Stepping(h) => /\ max_age_timer_mu # h
                              /\ max_age_timer_mu' # h
        /\ dispatched' # dispatched =>
             \E h \in TimerClosures :
               pc[h] = "unlocked" /\ pc'[h] = "done"]_vars
  /\ [](max_age_timer_mu # "none" =>
          /\ pc[max_age_timer_mu] \in {"locked", "critical_done"}
          /\ ~crashed => ENABLED HolderStep)
  /\ [](\A h \in DOMAIN pc :
          pc[h] \in {"unlocked", "returned", "done"} => max_age_timer_mu # h)

C18_Witness ==
  /\ DisconnectCount = 1
  /\ max_age_timer_mu = "destroy_channel_elem"
  /\ pc["force_close_max_age_channel"] = "done"
  /\ pc["destroy_channel_elem"] = "locked"

\* C19: after construction the two pending flags are never both true: the age
\* flag is already false when the goaway op is dispatched and stays false,
\* the grace flag is set only by the continuation of that op, and
\* destroy_channel_elem never cancels both timers.
C19_FlagsNeverBothPending ==
  /\ [](Constructed =>
          /\ ~(max_age_timer_pending /\ max_age_grace_timer_pending)
          /\ GoawayCount > 0 => ~max_age_timer_pending
          /\ max_age_grace_timer_pending =>
               /\ GoawayCount = 1
               /\ pc["start_max_age_grace_timer_after_goaway_op"]
                    \in {"critical_done", "unlocked", "done"}
          /\ Cardinality(cancel_calls) <= 1)
  /\ [][/\ dispatched' # dispatched => ~max_age_timer_pending
        /\ (~max_age_grace_timer_pending /\ max_age_grace_timer_pending') =>
             /\ pc["start_max_age_grace_timer_after_goaway_op"] = "locked"
             /\ ~max_age_timer_pending]_vars

C19_Witness ==
  /\ max_age_grace_timer_pending
  /\ ~max_age_timer_pending
  /\ max_age_timer.state = "fired"
  /\ pc["destroy_channel_elem"] = "critical_done"
  /\ cancel_calls = {"max_age_grace_timer"}

\* a finite max_age and an explicitly Infinite max_age_grace
FiniteAgeInfiniteGrace ==
  /\ Constructed
  /\ Configured(GPRC_ARG_MAX_CONNECION_AGE_S) # INT_MAX
  /\ HasArg(GPRC_ARG_MAX_CONNECION_AGE_GRACE_S)
  /\ Configured(GPRC_ARG_MAX_CONNECION_AGE_GRACE_S) = INT_MAX

\* close_max_age_channel finishes a run with GRPC_ERROR_NONE
AgeTimerFiredOk ==
  /\ pc["close_max_age_channel"] = "unlocked"
  /\ pc'["close_max_age_channel"] = "done"
  /\ max_age_timer.error = GRPC_ERROR_NONE

\* with a finite max_age and an Infinite max_age_grace the goaway op is
\* dispatched on Ok, the grace timer is armed with an infinite deadline and
\* its flag set, the timer never fires with Ok and no disconnect op is sent
InfiniteGraceNeverDisconnects ==
  /\ [](FiniteAgeInfiniteGrace =>
          /\ DisconnectCount = 0
          /\ max_age_grace_timer.state # "unarmed" =>
               /\ max_age_grace_timer.deadline = gpr_inf_future
               /\ GoawayCount = 1
          /\ max_age_grace_timer.state = "armed" =>
               max_age_grace_timer_pending
          /\ max_age_grace_timer.state = "fired" =>
               max_age_grace_timer.error # GRPC_ERROR_NONE)
  /\ [][FiniteAgeInfiniteGrace =>
          /\ AgeTimerFiredOk => GoawayCount' = 1
          /\ ArmsGraceTimer =>
               /\ max_age_grace_timer'.deadline = gpr_inf_future
               /\ max_age_grace_timer_pending']_vars

\* the grace flag goes from true to false
GraceFlagCleared ==
  /\ max_age_grace_timer_pending
  /\ ~max_age_grace_timer_pending'

\* C20 as stated: with a finite max_age and an Infinite max_age_grace the
\* goaway op is dispatched, the grace timer is armed with an infinite deadline,
\* never fires with Ok, no disconnect op is sent, and the grace flag stays
\* true until destroy_channel_elem cancels the timer.
C20_GraceFlagUntilTeardown ==
  /\ InfiniteGraceNeverDisconnects
  /\ [][(FiniteAgeInfiniteGrace /\ GraceFlagCleared) =>
          /\ "max_age_grace_timer" \in cancel_calls
          /\ max_age_grace_timer.error = GRPC_ERROR_CANCELLED]_vars

\* C20 as amended: the same, but the grace flag stays true until
\* force_close_max_age_channel runs with a status other than Ok, which
\* happens after destroy_channel_elem cancelled the timer or after the timer
\* subsystem ran it with another error.
C20_GraceFlagUntilErrorRun ==
  /\ InfiniteGraceNeverDisconnects
  /\ [][(FiniteAgeInfiniteGrace /\ GraceFlagCleared) =>
          /\ pc["force_close_max_age_channel"] = "locked"
          /\ pc'["force_close_max_age_channel"] = "critical_done"
          /\ max_age_grace_timer.state = "fired"
          /\ max_age_grace_timer.error
               \in {GRPC_ERROR_CANCELLED, GRPC_ERROR_OTHER}
          /\ max_age_grace_timer.error = GRPC_ERROR_CANCELLED =>
               "max_age_grace_timer" \in cancel_calls]_vars

C20_Witness ==
  /\ FiniteAgeInfiniteGrace
  /\ GoawayCount = 1
  /\ DisconnectCount = 0
  /\ max_age_grace_timer.deadline = gpr_inf_future
  /\ max_age_grace_timer.error = GRPC_ERROR_CANCELLED
  /\ cancel_calls = {"max_age_grace_timer"}
  /\ pc["force_close_max_age_channel"] = "done"
  /\ ~max_age_grace_timer_pending

====
